---------------------------- MODULE Spec2Model ----------------------------
(***************************************************************************)
(* Model of the lidar_transfer viewer:                                     *)
(*   - LaserScanVis (src/auxiliary/laserscanvis.py): the pending action,   *)
(*     the display mode, the canvases and their key-press handlers;        *)
(*   - the driving loop of src/visualize.py: load a frame, poll the        *)
(*     viewer's action, dispatch it;                                       *)
(*   - LaserScanVis.set_diff: the per-pixel difference images.             *)
(***************************************************************************)
EXTENDS Integers, Sequences, FiniteSets

VARIABLES
  \* ---- LaserScanVis
  action,        \* self.action
  view_mode,     \* self.view_mode
  show_target,   \* self.show_target
  show_diff,     \* self.show_diff
  connected,     \* canvases whose events.key_press has key_press connected
  closed,        \* canvases on which close() has been called
  frame,         \* self.frame
  nframes,       \* self.nframes == len(scan_names)
  \* ---- driving loop of visualize.py
  idx,           \* idx
  choice,        \* choice
  pc,            \* position of the loop: load, poll, dispatch, crashed
  \* ---- history (observation only, never read by the modelled code)
  startIdx,      \* idx when the current navigation trace started
  trace,         \* next/back choices dispatched since startIdx
  lastKey,       \* last mapped key handled since the last get_action
  nMapped,       \* mapped keypresses handled since the last get_action
  polledKeys,    \* mapped keypresses the latest get_action found handled
  lastModeKey,   \* most recent 1/2/3 keypress ("none" before the first)
  quitHandled,   \* a Q or Escape keypress has been handled
  quitRead,      \* get_action has returned 'quit'
  frameAfterQuit,\* a frame was loaded after get_action returned 'quit'
  \* ---- set_diff: the arrays of the two scans and the images it displays
  source_label,      \* scan_source.proj_color
  source_label_map,  \* scan_source.get_label_map()
  source_range,      \* scan_source.proj_range
  target_label,      \* proj_color of the target scan (of its merged scan
                     \* when adaption == 'cp')
  target_label_map,  \* get_label_map() of the same target scan
  target_range,      \* scan_target.proj_range
  diff_image_label,  \* data of self.diff_image_label
  diff_image_depth,  \* data of self.diff_image_depth
  diff_pc,           \* idle (no call), ready (set_diff called), done (returned)
  map_aliased,       \* get_label_map() hands out the scan's own array (TRUE)
                     \* or a fresh one (FALSE)
  target_scan_map,   \* the label map the target scan itself holds
  before,            \* history: the arrays of both scans when set_diff was called
  \* ---- range colourization (set_laserscan, set_laserscans, set_source_3d,
  \*      set_target_3d)
  col_fn,            \* the function called
  has_label_color,   \* hasattr(scan, 'label_color') (set_laserscan[s])
  range_data,        \* the range array read (unproj_range / proj_range)
  remissions,        \* the remission array read (remissions / proj_remissions)
  viridis_range,     \* viridis_range, <<>> while not computed
  col_nan,           \* the normalization divided 0 by 0 (NaN)
  col_pc             \* idle (no call), ready (called), done (returned)

viewVars == <<action, view_mode, show_target, show_diff, connected, closed,
              frame, nframes, idx, choice, pc, startIdx, trace, lastKey,
              nMapped, polledKeys, lastModeKey, quitHandled, quitRead,
              frameAfterQuit>>

diffVars == <<source_label, source_label_map, source_range, target_label,
              target_label_map, target_range, diff_image_label,
              diff_image_depth, diff_pc, map_aliased, target_scan_map,
              before>>

colVars == <<col_fn, has_label_color, range_data, remissions, viridis_range,
             col_nan, col_pc>>

vars == <<viewVars, diffVars, colVars>>

-----------------------------------------------------------------------------
(* Bounds *)
MaxFrames == 3
MaxKeys == 2
MaxTrace == 3
MaxChan == 1     \* colour channels range over 0..MaxChan
MaxLabel == 1    \* label ids range over 0..MaxLabel
MaxRange == 1    \* range values range over 0..MaxRange

MaxPoints == 2   \* a scan has 1..MaxPoints points
MaxRoot == 2     \* range values are the powers r ^ power, r in 0..MaxRoot

(* Width of a colour channel of proj_color: an 8-bit value in 0..255 *)
ColourBits == 8

(* Domains *)
Modes == {"label", "range", "rem"}
Keys == {"N", "B", "Q", "Escape", "1", "2", "3", "X"}

Min(a, b) == IF a < b THEN a ELSE b

(* The pixel grid of the projection images. set_diff works pixel by pixel
   (every output pixel is computed from the same pixel of its inputs), so the
   grid is one pixel, H = W = 1. *)
Pixels == {<<0, 0>>}
Colours == [1..3 -> 0..MaxChan]
Black == [c \in 1..3 |-> 0]
NoImage == [p \in Pixels |-> "unset"]

-----------------------------------------------------------------------------
(* LaserScanVis.reset: the canvases it creates, each with key_press connected *)
CreatedCanvases(st, sd) ==
  {"scan", "source"} \cup (IF st THEN {"target"} ELSE {})
                     \cup (IF sd THEN {"diff"} ELSE {})

(* LaserScanVis.destroy: the canvases it disconnects and closes *)
DestroyedCanvases(st, sd) ==
  {"source"} \cup (IF st THEN {"target"} ELSE {})
             \cup (IF sd THEN {"diff"} ELSE {})

(* Faulty variant of key_press_action: a pending action is not overwritten *)
key_press_action_first(key, act) ==
  IF act # "no" THEN act
  ELSE IF key = "N" THEN "next"
  ELSE IF key = "B" THEN "back"
  ELSE IF key = "Q" \/ key = "Escape" THEN "quit"
  ELSE IF key \in {"1", "2", "3"} THEN "change"
  ELSE act

(* LaserScanVis.key_press: the new self.action *)
key_press_action(key, act) ==
  IF key = "N" THEN "next"
  ELSE IF key = "B" THEN "back"
  ELSE IF key = "Q" \/ key = "Escape" THEN "quit"
  ELSE IF key = "1" THEN "change"
  ELSE IF key = "2" THEN "change"
  ELSE IF key = "3" THEN "change"
  ELSE act

(* Faulty variant of key_press_mode: the branch of key 3 selects the mode of key 2 *)
key_press_mode_swapped(key, mode) ==
  IF key = "1" THEN "label"
  ELSE IF key = "2" THEN "range"
  ELSE IF key = "3" THEN "range"
  ELSE mode

(* Faulty variant of key_press_mode: the navigation keys fall back to the label mode *)
key_press_mode_resets(key, mode) ==
  IF key = "1" THEN "label"
  ELSE IF key = "2" THEN "range"
  ELSE IF key = "3" THEN "rem"
  ELSE IF key = "N" \/ key = "B" THEN "label"
  ELSE mode

(* LaserScanVis.key_press: the new self.view_mode *)
key_press_mode(key, mode) ==
  IF key = "1" THEN "label"
  ELSE IF key = "2" THEN "range"
  ELSE IF key = "3" THEN "rem"
  ELSE mode

(* LaserScanVis.key_press: whether the branch taken calls self.destroy() *)
key_press_destroys(key) == key = "Q" \/ key = "Escape"

(* Faulty variant of get_action_cleared: the action is returned and not voided *)
get_action_kept(act) == act

(* LaserScanVis.get_action: the value left in self.action *)
get_action_cleared(act) == "no"

(* visualize.py, the next branch: idx = (idx + 1) % (len(scan_names) - 1).
   The modulus is zero when there is one frame: ZeroDivisionError. *)
NextRaises(n) == n - 1 = 0
NextIdx(i, n) == (i + 1) % (n - 1)

(* visualize.py, the back branch: idx -= 1; if idx < 0: idx = len - 1 *)
BackIdx(i, n) == IF i - 1 < 0 THEN n - 1 ELSE i - 1

(* visualize.py, the dispatch after the polling loop: where control goes *)
DispatchTarget(ch, n) ==
  IF ch = "next" THEN (IF NextRaises(n) THEN "crashed" ELSE "load")
  ELSE IF ch = "back" THEN "load"
  ELSE IF ch = "quit" THEN "load"   \* print(), then the while True loop goes on
  ELSE "load"                        \* no branch matches: the loop goes on

-----------------------------------------------------------------------------
(* No set_diff call: visualize.py never calls it *)
DiffIdle ==
  /\ source_label = [p \in Pixels |-> Black]
  /\ source_label_map = [p \in Pixels |-> 0]
  /\ source_range = [p \in Pixels |-> 0]
  /\ target_label = [p \in Pixels |-> Black]
  /\ target_label_map = [p \in Pixels |-> 0]
  /\ target_range = [p \in Pixels |-> 0]
  /\ diff_image_label = NoImage
  /\ diff_image_depth = NoImage
  /\ diff_pc = "idle"
  /\ map_aliased = FALSE
  /\ target_scan_map = target_label_map
  /\ before = <<>>

(* LaserScanVis.__init__ and reset, then idx = FLAGS.offset of visualize.py.
   The title assignments of visualize.py:253-259 (vis.img_canvas,
   vis.test_canvas, attributes reset never creates) are not modelled: the
   state is the one the loop at visualize.py:269 starts from. *)
ViewStart(mode) ==
  /\ action = "no"
  /\ view_mode = mode
  /\ show_target \in BOOLEAN
  /\ show_diff \in BOOLEAN
  /\ connected = CreatedCanvases(show_target, show_diff)
  /\ closed = {}
  /\ frame = 0
  /\ nframes \in 1..MaxFrames
  /\ idx \in 0..(nframes - 1)
  /\ choice = "no"
  /\ pc = "load"
  /\ startIdx = idx
  /\ trace = <<>>
  /\ lastKey = "none"
  /\ nMapped = 0
  /\ polledKeys = 0
  /\ lastModeKey = (IF mode = "range" THEN "2"
                    ELSE IF mode = "rem" THEN "3" ELSE "none")
  /\ quitHandled = FALSE
  /\ quitRead = FALSE
  /\ frameAfterQuit = FALSE

(* The viewer as constructed: view_mode = 'label' *)
ViewInit == ViewStart("label")

(* No colourization call in progress *)
ColIdle ==
  /\ col_fn = "none"
  /\ has_label_color = TRUE
  /\ range_data = <<>>
  /\ remissions = <<>>
  /\ viridis_range = <<>>
  /\ col_nan = FALSE
  /\ col_pc = "idle"

Init == ViewInit /\ DiffIdle /\ ColIdle

(* A key-press event with key k, handled by key_press. The event comes from
   a canvas that still has the handler connected; key_press reads event.key
   only, so the canvas it came from makes no difference to what it does. *)
KeyPressOn(k) ==
    /\ connected # {}
    /\ pc # "crashed"
    /\ action' = key_press_action(k, action)
    /\ view_mode' = key_press_mode(k, view_mode)
    /\ IF key_press_destroys(k)
         THEN /\ connected' = connected \ DestroyedCanvases(show_target, show_diff)
              /\ closed' = closed \cup DestroyedCanvases(show_target, show_diff)
         ELSE UNCHANGED <<connected, closed>>
    /\ lastKey' = IF k = "X" THEN lastKey ELSE k
    /\ nMapped' = IF k = "X" THEN nMapped ELSE Min(nMapped + 1, MaxKeys)
    /\ lastModeKey' = IF k \in {"1", "2", "3"} THEN k ELSE lastModeKey
    /\ quitHandled' = (quitHandled \/ k \in {"Q", "Escape"})
    /\ UNCHANGED <<show_target, show_diff, frame, nframes, idx, choice, pc,
                   startIdx, trace, polledKeys, quitRead, frameAfterQuit>>
    /\ UNCHANGED <<diffVars, colVars>>

KeyPress == \E k \in Keys : KeyPressOn(k)

(* Top of the while True loop: open scan_names[idx], project, display *)
LoadFrame ==
  /\ pc = "load"
  /\ frame' = idx
  /\ pc' = "poll"
  /\ frameAfterQuit' = (frameAfterQuit \/ quitRead)
  /\ UNCHANGED <<action, view_mode, show_target, show_diff, connected, closed,
                 nframes, idx, choice, startIdx, trace, lastKey, nMapped,
                 polledKeys, lastModeKey, quitHandled, quitRead>>
  /\ UNCHANGED <<diffVars, colVars>>

(* One turn of the inner polling loop: choice = vis.get_action(0.01) *)
Poll ==
  /\ pc = "poll"
  /\ choice' = action
  /\ action' = get_action_cleared(action)
  /\ pc' = IF choice' # "no" THEN "dispatch" ELSE "poll"
  /\ quitRead' = (quitRead \/ choice' = "quit")
  /\ lastKey' = "none"
  /\ nMapped' = 0
  /\ polledKeys' = nMapped
  /\ UNCHANGED <<view_mode, show_target, show_diff, connected, closed, frame,
                 nframes, idx, startIdx, trace, lastModeKey, quitHandled,
                 frameAfterQuit>>
  /\ UNCHANGED <<diffVars, colVars>>

(* The if/elif chain after the polling loop *)
DispatchStep ==
  /\ pc = "dispatch"
  /\ pc' = DispatchTarget(choice, nframes)
  /\ idx' = IF choice = "next" /\ ~NextRaises(nframes) THEN NextIdx(idx, nframes)
            ELSE IF choice = "back" THEN BackIdx(idx, nframes)
            ELSE idx
  /\ UNCHANGED <<action, view_mode, show_target, show_diff, connected, closed,
                 frame, nframes, choice, lastKey, nMapped, polledKeys,
                 lastModeKey, quitHandled, quitRead, frameAfterQuit>>
  /\ UNCHANGED <<diffVars, colVars>>

Dispatch == DispatchStep /\ UNCHANGED <<trace, startIdx>>

Next == KeyPress \/ LoadFrame \/ Poll \/ Dispatch

Spec == Init /\ [][Next]_vars

-----------------------------------------------------------------------------
(* The driving loop as visualize.py runs it (LaserScanVis constructed with
   show_diff=False and the default show_target=True), observed with the
   trace of the navigation choices it has dispatched. *)
InitNav == ViewInit /\ DiffIdle /\ ColIdle /\ show_target = TRUE /\ show_diff = FALSE

DispatchNav ==
  /\ DispatchStep
  /\ IF choice \in {"next", "back"}
       THEN IF Len(trace) < MaxTrace
              THEN /\ trace' = Append(trace, choice)
                   /\ startIdx' = startIdx
              ELSE /\ trace' = <<choice>>
                   /\ startIdx' = idx
       ELSE UNCHANGED <<trace, startIdx>>

NextNav == KeyPress \/ LoadFrame \/ Poll \/ DispatchNav

SpecNav == InitNav /\ [][NextNav]_vars

-----------------------------------------------------------------------------
(* LaserScanVis.set_diff *)

Abs(x) == IF x < 0 THEN 0 - x ELSE x

(* black = np.sum(source_label, axis=2) == 0, repeated over the 3 channels *)
BlackLabel(src) == {p \in Pixels : src[p][1] + src[p][2] + src[p][3] = 0}

(* target_label[black] = 0 *)
MaskedTargetLabel(src, tgt) ==
  [p \in Pixels |-> IF p \in BlackLabel(src) THEN Black ELSE tgt[p]]

(* black = source_label_map == 0; target_label_map[black] = 0 *)
MaskedTargetLabelMap(srcmap, tgtmap) ==
  [p \in Pixels |-> IF srcmap[p] = 0 THEN 0 ELSE tgtmap[p]]

(* source_label - target_label on one channel: the subtraction of two
   unsigned ColourBits-wide values keeps their width and wraps around *)
ChannelSub(s, t) == (s - t) % (2 ^ ColourBits)

(* label_diff = abs(source_label - target_label), target_label as masked *)
LabelDiff(src, tgt) ==
  [p \in Pixels |-> [c \in 1..3 |-> Abs(ChannelSub(src[p][c], tgt[p][c]))]]

(* label_diff[..., ::-1]: the channel order reversed for display *)
Reversed(img) == [p \in Pixels |-> [c \in 1..3 |-> img[p][4 - c]]]

(* Faulty variant of RangeDiff: the difference is not squared *)
RangeDiffUnsquared(srng, trng) ==
  [p \in Pixels |-> srng[p] - trng[p]]

(* black = source_range == 0 is computed and never applied (the masking line
   is commented out); range_diff = (source_range - target_range) ** 2 *)
RangeDiff(srng, trng) ==
  [p \in Pixels |-> (srng[p] - trng[p]) * (srng[p] - trng[p])]

(* Every array of the two scans that set_diff reads *)
ScanArrays ==
  [source_label |-> source_label, source_label_map |-> source_label_map,
   source_range |-> source_range, target_label |-> target_label,
   target_label_map |-> target_scan_map, target_range |-> target_range]

(* The scans handed to set_diff *)
InitDiff ==
  /\ map_aliased \in BOOLEAN
  /\ ViewInit
  /\ nframes = 1
  /\ show_target = TRUE
  /\ source_label \in [Pixels -> Colours]
  /\ source_label_map \in [Pixels -> 0..MaxLabel]
  /\ source_range \in [Pixels -> 0..MaxRange]
  /\ target_label \in [Pixels -> Colours]
  /\ target_label_map \in [Pixels -> 0..MaxLabel]
  /\ target_range \in [Pixels -> 0..MaxRange]
  /\ diff_image_label = NoImage
  /\ diff_image_depth = NoImage
  /\ diff_pc = "ready"
  /\ target_scan_map = target_label_map
  /\ before = ScanArrays
  /\ ColIdle

(* set_diff with show_diff unset: returns at once *)
SetDiffHidden ==
  /\ diff_pc = "ready"
  /\ ~show_diff
  /\ diff_pc' = "done"
  /\ UNCHANGED <<source_label, source_label_map, source_range, target_label,
                 target_label_map, target_range, diff_image_label,
                 diff_image_depth, map_aliased, target_scan_map, before>>
  /\ UNCHANGED <<viewVars, colVars>>

(* set_diff with show_diff set *)
SetDiff ==
  /\ diff_pc = "ready"
  /\ show_diff
  /\ target_label' = MaskedTargetLabel(source_label, target_label)
  /\ target_label_map' = MaskedTargetLabelMap(source_label_map, target_label_map)
  /\ target_scan_map' = IF map_aliased THEN target_label_map'
                        ELSE target_scan_map
  /\ diff_image_label' = Reversed(LabelDiff(source_label, target_label'))
  /\ diff_image_depth' = RangeDiff(source_range, target_range)
  /\ diff_pc' = "done"
  /\ UNCHANGED <<source_label, source_label_map, source_range, target_range,
                 map_aliased, before>>
  /\ UNCHANGED <<viewVars, colVars>>

NextDiff == SetDiff \/ SetDiffHidden

SpecDiff == InitDiff /\ [][NextDiff]_vars

-----------------------------------------------------------------------------
(* Range colourization: set_laserscan, set_laserscans, set_source_3d,
   set_target_3d *)

RECURSIVE Pow(_, _)
Pow(b, e) == IF e = 0 THEN 1 ELSE b * Pow(b, e - 1)

(* power = 16 in set_laserscan and set_laserscans, power = 2 in
   set_source_3d and set_target_3d *)
PowerOf(fn) == IF fn \in {"set_laserscan", "set_laserscans"} THEN 16 ELSE 2

(* range_data ** (1 / power), on the exact powers the model draws *)
Root(x, power) == CHOOSE r \in 0..MaxRoot : Pow(r, power) = x

SeqMin(sq) == CHOOSE v \in {sq[i] : i \in 1..Len(sq)} :
                \A i \in 1..Len(sq) : v <= sq[i]
SeqMax(sq) == CHOOSE v \in {sq[i] : i \in 1..Len(sq)} :
                \A i \in 1..Len(sq) : v >= sq[i]

(* range_data.max() - range_data.min() = 0: every quotient is 0 / 0 *)
Degenerate(rooted) == SeqMax(rooted) - SeqMin(rooted) = 0

(* ((range_data - min) / (max - min) * 255).astype(np.uint8), max > min *)
MinMaxIndex(rooted) ==
  [i \in 1..Len(rooted) |->
     ((rooted[i] - SeqMin(rooted)) * 255) \div (SeqMax(rooted) - SeqMin(rooted))]

(* What the cast of NaN to uint8 may give: the conversion is undefined, any
   8-bit value; the least, a middle and the greatest one stand for them *)
NaNCast == {0, 128, 255}

(* (range_data * 255).astype(np.uint8) of remissions 0.0 and 1.0 *)
RemIndex(rem) == [i \in 1..Len(rem) |-> rem[i] * 255]

(* Whether the call takes the branch that min-max normalizes the range *)
Normalizes(fn, labelled, mode) ==
  IF fn \in {"set_laserscan", "set_laserscans"} THEN ~labelled
  ELSE mode = "range"

ColourFns == {"set_laserscan", "set_laserscans", "set_source_3d",
              "set_target_3d"}

(* A call of one of the four functions on a scan of 1..MaxPoints points *)
InitColour ==
  /\ \E mode \in Modes : ViewStart(mode)
  /\ nframes = 1
  /\ show_target = TRUE
  /\ show_diff = FALSE
  /\ DiffIdle
  /\ col_fn \in ColourFns
  /\ has_label_color \in BOOLEAN
  /\ \E n \in 1..MaxPoints :
       /\ range_data \in [1..n -> {Pow(r, PowerOf(col_fn)) : r \in 0..MaxRoot}]
       /\ remissions \in [1..n -> {0, 1}]
  /\ viridis_range = <<>>
  /\ col_nan = FALSE
  /\ col_pc = "ready"

(* The min-max normalization shared by the four functions *)
NormalizeRange(power) ==
  LET rooted == [i \in 1..Len(range_data) |-> Root(range_data[i], power)]
  IN  IF Degenerate(rooted)
        THEN /\ col_nan' = TRUE
             /\ viridis_range' \in [1..Len(range_data) -> NaNCast]
        ELSE /\ col_nan' = FALSE
             /\ viridis_range' = MinMaxIndex(rooted)

(* set_laserscan / set_laserscans: label colours when the scan has them,
   else the normalized range with power 16 *)
SetLaserscanOf(fn) ==
  /\ col_pc = "ready"
  /\ col_fn = fn
  /\ IF has_label_color
       THEN UNCHANGED <<viridis_range, col_nan>>
       ELSE NormalizeRange(16)
  /\ col_pc' = "done"
  /\ UNCHANGED <<col_fn, has_label_color, range_data, remissions>>
  /\ UNCHANGED <<viewVars, diffVars>>

SetLaserscan == SetLaserscanOf("set_laserscan")

SetLaserscans == SetLaserscanOf("set_laserscans")

(* set_source_3d / set_target_3d: by view_mode, the label colours, the
   normalized range with power 2, or the remissions *)
Set3dOf(fn) ==
  /\ col_pc = "ready"
  /\ col_fn = fn
  /\ IF view_mode = "label"
       THEN UNCHANGED <<viridis_range, col_nan>>
       ELSE IF view_mode = "range"
         THEN NormalizeRange(2)
         ELSE /\ viridis_range' = RemIndex(remissions)
              /\ UNCHANGED col_nan
  /\ col_pc' = "done"
  /\ UNCHANGED <<col_fn, has_label_color, range_data, remissions>>
  /\ UNCHANGED <<viewVars, diffVars>>

SetSource3d == Set3dOf("set_source_3d")

SetTarget3d == Set3dOf("set_target_3d")

NextColour == SetLaserscan \/ SetLaserscans \/ SetSource3d \/ SetTarget3d

SpecColour == InitColour /\ [][NextColour]_vars

-----------------------------------------------------------------------------
(* The keyboard interface as stated: the action and the mode each key selects *)
StatedAction(k, act) ==
  CASE k = "N" -> "next"
    [] k = "B" -> "back"
    [] k \in {"Q", "Escape"} -> "quit"
    [] k \in {"1", "2", "3"} -> "change"
    [] OTHER -> act

StatedMode(k, mode) ==
  CASE k = "1" -> "label"
    [] k = "2" -> "range"
    [] k = "3" -> "rem"
    [] OTHER -> mode

LoopPositions == {"load", "poll", "dispatch"}

(* C1: get_action is read-and-clear. Every get_action returns the pending
   action and leaves the pending action 'no'; a get_action with no mapped
   keypress since the previous one returns 'no'. *)
C1_ReadAndClear ==
  [][Poll => /\ choice' = action
             /\ action' = "no"
             /\ (nMapped = 0 => choice' = "no")]_vars

C1_Witness ==
  pc = "dispatch" /\ choice = "next" /\ action = "no" /\ polledKeys = 1

(* C2: at most one pending action is remembered. When two or more mapped
   keypresses were handled since the previous get_action, the next get_action
   returns the action of the latest of them. *)
C2_LatestKeyWins ==
  [][Poll /\ nMapped >= 2 => choice' = StatedAction(lastKey, "no")]_vars

C2_Witness ==
  pc = "dispatch" /\ polledKeys >= 2 /\ choice = "back" /\ action = "no"

(* C3: quit is terminal. Once a Q or Escape keypress has been handled, no
   keypress changes the pending action away from 'quit', and no get_action
   returns next, back or change. *)
C3_QuitTerminal ==
  [][/\ (quitHandled /\ action = "quit" /\ KeyPress => action' = "quit")
     /\ (quitHandled /\ Poll => choice' \notin {"next", "back", "change"})]_vars

(* C4: the driving loop stops processing frames only on quit. After next,
   back or change the loop goes on to load a frame, and it leaves the loop on
   no choice other than quit. *)
C4_LoopStopsOnlyOnQuit ==
  [][/\ (pc = "dispatch" /\ choice \in {"next", "back", "change"}
           => pc' = "load")
     /\ (pc \in LoopPositions /\ pc' \notin LoopPositions
           => choice = "quit")]_vars

C6_AllCanvasesReleased ==
  quitHandled =>
    \A c \in CreatedCanvases(show_target, show_diff) :
      c \in closed /\ c \notin connected

(* C7: key_press maps keys to actions as the keyboard interface states: N to
   next, B to back, Q and Escape to quit, 1/2/3 to change with mode label,
   range, rem; any other key leaves the action and the mode unchanged. *)
C7_KeyMapping ==
  [][\A k \in Keys :
       KeyPressOn(k) => /\ action' = StatedAction(k, action)
                        /\ view_mode' = StatedMode(k, view_mode)]_vars

C7_Witness ==
  lastKey = "3" /\ action = "change" /\ view_mode = "rem" /\ nMapped = 1

(* C8: the navigation sequence next, next, back leaves the frame index at
   (i + 1) mod n, i the index the sequence started from and n the number of
   frames. *)
C8_NextNextBack ==
  trace = <<"next", "next", "back">> => idx = (startIdx + 1) % nframes

(* C9: the display mode is one of label, range, rem; it is label until the
   first 1/2/3 keypress and then the mode of the most recent 1/2/3 keypress,
   whatever N, B keypresses and get_action calls happened since. *)
C9_ModeIsLastSelected ==
  /\ view_mode \in Modes
  /\ view_mode = StatedMode(lastModeKey, "label")

C9_Witness ==
  /\ lastModeKey = "3" /\ view_mode = "rem"
  /\ pc = "dispatch" /\ choice = "back" /\ lastKey = "none"

(* C10: in set_diff every pixel absent in the source yields 0 in the
   corresponding difference output, whatever the target holds there: a black
   source label colour gives a zero label difference, a source label id 0
   gives the target label id 0, and a source range 0 gives a zero range
   difference. *)
C10_AbsentSourceGivesNoData ==
  diff_pc = "done" /\ show_diff =>
    \A p \in Pixels :
      /\ (source_label[p] = Black => diff_image_label[p] = Black)
      /\ (source_label_map[p] = 0 => target_label_map[p] = 0)
      /\ (source_range[p] = 0 => diff_image_depth[p] = 0)

(* C11: the label difference image is the absolute colour difference: at
   every pixel present in the source (source colour not black) each channel
   of the image equals |s - t|, s the source and t the target channel value,
   with no wraparound when t > s. *)
C11_AbsoluteColourDifference ==
  diff_pc = "done" /\ show_diff =>
    \A p \in Pixels : \A c \in 1..3 :
      before.source_label[p] # Black =>
        LET s == before.source_label[p][c]
            t == before.target_label[p][c]
        IN  diff_image_label[p][4 - c] = IF s >= t THEN s - t ELSE t - s

(* C12: the difference images are zero at every pixel when the source and
   target projections are equal everywhere, and the range difference is
   symmetric: set_diff's squared range error of (target, source) equals the
   one it displays for (source, target) at every pixel. *)
C12_ZeroWhenEqualAndSymmetric ==
  diff_pc = "done" /\ show_diff =>
    /\ (/\ before.source_label = before.target_label
        /\ before.source_range = before.target_range)
         => \A p \in Pixels : /\ diff_image_label[p] = Black
                              /\ diff_image_depth[p] = 0
    /\ \A p \in Pixels :
         diff_image_depth[p] =
           RangeDiff(before.target_range, before.source_range)[p]

C12_Witness ==
  /\ diff_pc = "done" /\ show_diff
  /\ \E p \in Pixels :
       /\ before.source_label[p] # Black
       /\ before.source_label = before.target_label
       /\ before.source_range[p] = 1
       /\ before.source_range = before.target_range
       /\ diff_image_label[p] = Black /\ diff_image_depth[p] = 0

(* C13: range colourization guards degenerate input: when every range value
   of the frame is equal, the min-max normalization of set_laserscan,
   set_laserscans, set_source_3d and set_target_3d divides nothing by zero
   and every point gets a colormap index in 0..255. *)
C13_DegenerateRangeGuarded ==
  (/\ col_pc = "done"
   /\ Normalizes(col_fn, has_label_color, view_mode)
   /\ \A i, j \in 1..Len(range_data) : range_data[i] = range_data[j])
    => /\ ~col_nan
       /\ Len(viridis_range) = Len(range_data)
       /\ \A i \in 1..Len(viridis_range) : viridis_range[i] \in 0..255

(* C14: whatever next and back actions were dispatched, the index update has
   not failed, the frame index is within 0..n-1 and the frame number of the
   title, frame + 1, is within 1..nframes. *)
C14_IndexInRange ==
  /\ pc # "crashed"
  /\ idx \in 0..(nframes - 1)
  /\ (frame + 1) \in 1..nframes

(* C15: set_diff leaves its inputs unchanged: when it has returned, the
   projected colour image, the label map and the range image of the source
   scan and of the target scan hold the values they held at the call. *)
C15_InputsUnchanged == diff_pc = "done" => ScanArrays = before

=============================================================================
